---- MODULE Spec2Model ----
\* Model of the zbus notification backend of notify-rust
\* (src/src/xdg/zbus_rs.rs): bus selection, the two wire encodings,
\* the process-wide portal identifier counter, notification handles
\* and the action/close signal listener.
EXTENDS Integers, Naturals, Sequences, FiniteSets, TLC

\* ------------------------------------------------------------------
\* Bounds
\* ------------------------------------------------------------------
MaxSends == 2
NumProcs == 2
Procs == 1..NumProcs

\* ------------------------------------------------------------------
\* Program constants
\* ------------------------------------------------------------------
\* A u32 is held as its bit pattern read as a two's-complement i32
\* (values 2^31 .. 2^32-1 appear as -2^31 .. -1), which keeps its width.
I32Max == 2147483647

NOTIFICATION_DEFAULT_BUS == "org.freedesktop.Notifications"
NOTIFICATION_PORTAL_BUS == "org.freedesktop.portal.Desktop"
CustomTestBus == "de.hoodie.Notification.test.bus"

Buses == {NOTIFICATION_DEFAULT_BUS, NOTIFICATION_PORTAL_BUS, CustomTestBus}

\* Identifier a caller may put in Notification.id (0 stands for None,
\* notification.id.unwrap_or(0)).
SuppliedIds == {0, 1}
\* Identifiers a legacy server may answer to Notify.
ServerReplies == {9}
\* Portal "version" property read: -1 stands for a failed read (Err).
ProbeVals == {-1, 0, 1}

\* Values the process-wide APP_ID counter can hold when the model starts:
\* seeded at 1, or 2^32 - 1 (bit pattern -1) after 2^32 - 2 earlier
\* self-allocating portal sends.
AppIdStarts == {1, -1}

\* ------------------------------------------------------------------
\* Pure parts of the code
\* ------------------------------------------------------------------

\* Variant: a load in place of fetch_add (the counter never advances).
FetchAddNoInc(v) == v

\* AtomicU32::fetch_add(1): wrapping increment of the counter.
FetchAdd(v) == IF v = I32Max THEN -I32Max - 1 ELSE v + 1

\* a < b on u32 values held as bit patterns.
ULess(a, b) == IF (a >= 0) = (b >= 0) THEN a < b ELSE a >= 0

\* Variant: any successful read, also version 0, selects the portal.
PortalAvailableAnyVersion(probe) == probe # -1

\* get_portal_version_via_connection(..).is_ok_and(|version| version > 0)
PortalAvailable(probe) == probe # -1 /\ probe > 0

\* Variant: the unforced send always uses the default bus.
SelectBusDefaultOnly(probe) == NOTIFICATION_DEFAULT_BUS

\* Bus chosen by an unforced send.
SelectBus(probe) ==
    IF PortalAvailable(probe) THEN NOTIFICATION_PORTAL_BUS
    ELSE NOTIFICATION_DEFAULT_BUS

\* Variant: every bus other than the default one is treated as the portal.
IsPortalBusNotDefault(bus) == bus # NOTIFICATION_DEFAULT_BUS

\* bus.as_str() == xdg::NOTIFICATION_PORTAL_BUS
IsPortalBus(bus) == bus = NOTIFICATION_PORTAL_BUS

\* Variant: a nonzero supplied identifier is kept instead of the reply.
LegacyResultKeepNonzero(id, reply) == IF id = 0 THEN reply ELSE id

\* Variant: the portal branch allocates even for a nonzero identifier.
SelfAllocatesAlways(bus, id) == IsPortalBus(bus)

\* Portal branch with `id == 0`: the identifier comes from APP_ID.
SelfAllocates(bus, id) == IsPortalBus(bus) /\ id = 0

\* Identifier returned by the legacy branch: the deserialized reply.
LegacyResult(id, reply) == reply

\* Wire method used by send_notification_via_connection_at_bus.
Encoding(bus) == IF IsPortalBus(bus) THEN "AddNotification" ELSE "Notify"

NoHandle == [valid |-> FALSE, id |-> 0, bus |-> NOTIFICATION_DEFAULT_BUS,
             created |-> NOTIFICATION_DEFAULT_BUS]

\* Variant: the handle's id is overwritten even when the resend failed.
HandleAfterIgnoreErr(h, c, ok, result) ==
    IF c.op = "update" THEN [h EXCEPT !.id = result]
    ELSE IF ok THEN [valid |-> TRUE, id |-> result, bus |-> c.handleBus,
                     created |-> c.bus]
    ELSE h

\* The caller's handle after the send completed: `?` returns early on
\* error (update_fallible keeps self.id, connect_* build no handle);
\* otherwise update_fallible stores the returned id and connect_* build
\* ZbusNotificationHandle::new(id, connection, notification snapshot).
HandleAfter(h, c, ok, result) ==
    IF ~ok THEN h
    ELSE IF c.op = "update" THEN [h EXCEPT !.id = result]
    ELSE [valid |-> TRUE, id |-> result, bus |-> c.handleBus, created |-> c.bus]

NoCall == [op |-> "none", ok |-> FALSE, err |-> "none", id |-> 0,
           bus |-> NOTIFICATION_DEFAULT_BUS, method |-> "none",
           supplied |-> 0, probed |-> FALSE, probe |-> -1,
           self |-> FALSE, prevMax |-> 0, ret |-> 0, reply |-> 0,
           handleBus |-> NOTIFICATION_DEFAULT_BUS]

\* No portal payload built yet.
NoPayload == [title |-> "", body |-> "", priority |-> "none",
              icon |-> [kind |-> "none", value |-> ""]]

\* ------------------------------------------------------------------
\* State
\* ------------------------------------------------------------------
VARIABLES
    APP_ID,       \* static APP_ID: AtomicU32 (portal identifier counter)
    maxAlloc,     \* history: largest identifier self-allocated so far (0: none)
    portalProbe,  \* what reading the portal "version" property yields now
    sends,        \* number of sends started (bounds the run)
    pc,           \* per caller: "idle", "probed" (portal probe answered,
                  \* send not started) or "inflight" (awaiting call_method)
    call,         \* per caller: the send in progress / last completed send
    handle,       \* per caller: its ZbusNotificationHandle, if any
    closeReq,     \* per caller: the last CloseNotification it issued
    lpc,          \* wait_for_action_signal: position of the listener
    rules,        \* number of match rules registered by the listener
    live,         \* a MessageStream of the listener currently exists
    queue,        \* messages buffered in that MessageStream
    delivered,    \* messages the bus has delivered to the connection
    consumed,     \* history: messages the listener took from its streams
    handled,      \* history: messages the handler was invoked with
    ending,       \* how the stream ended the loop: "none", "end", "error"
    sawMatch,     \* history: a matching signal reached the connection
                  \* after both rules were registered
    closures,     \* times the on_close closure was called
    arrived,      \* history: messages that reached the connection after
                  \* both match rules were registered, in arrival order
    cpath,        \* NotificationBus::custom: the path given
    cname,        \* NotificationBus::custom: the name produced
    nicon,        \* portal encoding: notification.icon
    nhints,       \* portal encoding: notification.get_hints() in order
    readable,     \* portal encoding: image paths fs::read can read
    payload       \* portal encoding: the AddNotification dictionary

mvars == <<APP_ID, maxAlloc, portalProbe, sends, pc, call, handle,
           closeReq>>
lvars == <<lpc, rules, live, queue, delivered, consumed, handled, ending,
           sawMatch, closures, arrived>>
pvars == <<cpath, cname, nicon, nhints, readable, payload>>
vars == <<APP_ID, maxAlloc, portalProbe, sends, pc, call, handle,
          closeReq, lpc, rules, live, queue, delivered, consumed, handled,
          ending, sawMatch, closures, arrived, cpath, cname, nicon, nhints, readable,
          payload>>

ListenerInit ==
    /\ lpc = "start"
    /\ rules = 0
    /\ live = FALSE
    /\ queue = <<>>
    /\ delivered = 0
    /\ consumed = <<>>
    /\ handled = <<>>
    /\ ending = "none"
    /\ sawMatch = FALSE
    /\ closures = 0
    /\ arrived = <<>>

\* The pure encoders, before they are applied.
PureInit ==
    /\ cpath = <<>>
    /\ cname = "unset"
    /\ nicon = ""
    /\ nhints = <<>>
    /\ readable = {}
    /\ payload = NoPayload

NoClose == [valid |-> FALSE, bus |-> NOTIFICATION_DEFAULT_BUS, id |-> 0,
            created |-> NOTIFICATION_DEFAULT_BUS, method |-> "none",
            ok |-> FALSE]

Init ==
    /\ PureInit
    /\ closeReq = [p \in Procs |-> NoClose]
    /\ ListenerInit
    /\ APP_ID \in AppIdStarts
    /\ maxAlloc = APP_ID - 1
    /\ portalProbe \in ProbeVals
    /\ sends = 0
    /\ pc = [p \in Procs |-> "idle"]
    /\ call = [p \in Procs |-> NoCall]
    /\ handle = [p \in Procs |-> NoHandle]

\* The synchronous prefix of send_notification_via_connection_at_bus up
\* to the call_method await: on the portal bus a zero identifier is
\* replaced by APP_ID.fetch_add(1).  c is the record of the call.
StartAtBus(p, c, id, bus) ==
    LET self == SelfAllocates(bus, id)
        useId == IF self THEN APP_ID ELSE id
    IN /\ APP_ID' = IF self THEN FetchAdd(APP_ID) ELSE APP_ID
       /\ maxAlloc' = IF self /\ ULess(maxAlloc, APP_ID) THEN APP_ID ELSE maxAlloc
       /\ call' = [call EXCEPT ![p] =
                    [c EXCEPT !.id = useId, !.bus = bus,
                              !.method = Encoding(bus), !.self = self,
                              !.prevMax = maxAlloc]]
       /\ pc' = [pc EXCEPT ![p] = "inflight"]

\* connect_and_send_notification up to the answer of the portal probe:
\* open a session connection, await get_portal_version_via_connection
\* and choose the bus.  The send starts in a later step (StartSend).
ConnectAndSend(p) ==
    /\ pc[p] = "idle"
    /\ sends < MaxSends
    /\ sends' = sends + 1
    /\ \E nid \in SuppliedIds, sessionOk \in BOOLEAN :
        LET c == [NoCall EXCEPT !.op = "connect", !.supplied = nid]
            bus == SelectBus(portalProbe)
        IN IF ~sessionOk
           THEN /\ call' = [call EXCEPT ![p] = [c EXCEPT !.err = "session"]]
                /\ UNCHANGED pc
           ELSE /\ call' = [call EXCEPT ![p] =
                        [c EXCEPT !.probed = TRUE, !.probe = portalProbe,
                                  !.bus = bus, !.handleBus = bus]]
                /\ pc' = [pc EXCEPT ![p] = "probed"]
    /\ UNCHANGED <<APP_ID, maxAlloc, portalProbe, handle, closeReq>>
    /\ UNCHANGED <<lvars, pvars>>

\* connect_and_send_notification_at_bus: open a session connection and
\* start the send on the supplied bus, without probing.  The handle keeps
\* notification.clone(), whose bus field is the caller's (nbus).
ConnectAndSendAtBus(p) ==
    /\ pc[p] = "idle"
    /\ sends < MaxSends
    /\ sends' = sends + 1
    /\ \E nid \in SuppliedIds, bus \in Buses, nbus \in Buses,
         sessionOk \in BOOLEAN :
        LET c == [NoCall EXCEPT !.op = "connect_at", !.supplied = nid,
                                !.handleBus = nbus]
        IN IF ~sessionOk
           THEN /\ call' = [call EXCEPT ![p] = [c EXCEPT !.err = "session"]]
                /\ UNCHANGED <<APP_ID, maxAlloc, pc>>
           ELSE StartAtBus(p, c, nid, bus)
    /\ UNCHANGED <<portalProbe, handle, closeReq>>
    /\ UNCHANGED <<lvars, pvars>>

\* ZbusNotificationHandle::update_fallible, first part:
\* send_notification_via_connection awaits the portal probe and chooses
\* the bus; the send with the handle's identifier starts in StartSend.
Update(p) ==
    /\ pc[p] = "idle"
    /\ handle[p].valid
    /\ sends < MaxSends
    /\ sends' = sends + 1
    /\ call' = [call EXCEPT ![p] =
            [NoCall EXCEPT !.op = "update", !.supplied = handle[p].id,
                           !.probed = TRUE, !.probe = portalProbe,
                           !.bus = SelectBus(portalProbe),
                           !.handleBus = handle[p].bus]]
    /\ pc' = [pc EXCEPT ![p] = "probed"]
    /\ UNCHANGED <<APP_ID, maxAlloc, portalProbe, handle, closeReq>>
    /\ UNCHANGED <<lvars, pvars>>

\* After the probe's await: send_notification_via_connection_at_bus on
\* the chosen bus runs up to its call_method await (the fetch_add of the
\* portal branch included); other callers and the portal may have acted
\* in between.
StartSend(p) ==
    /\ pc[p] = "probed"
    /\ StartAtBus(p, call[p], call[p].supplied, call[p].bus)
    /\ UNCHANGED <<portalProbe, sends, handle, closeReq>>
    /\ UNCHANGED <<lvars, pvars>>

\* Completion of the call_method await of
\* send_notification_via_connection_at_bus and of its caller: the portal
\* branch returns the identifier it sent (the reply is ignored), the
\* legacy branch returns the u32 the server replied with; `?` propagates
\* a failed call.  connect_* build the handle from the result, update
\* overwrites the handle's id with it.
Complete(p) ==
    /\ pc[p] = "inflight"
    /\ pc' = [pc EXCEPT ![p] = "idle"]
    /\ \E ok \in BOOLEAN, reply \in ServerReplies :
        LET c == call[p]
            result == IF IsPortalBus(c.bus) THEN c.id
                      ELSE LegacyResult(c.id, reply)
        IN /\ call' = [call EXCEPT ![p] =
                    IF ok THEN [c EXCEPT !.ok = TRUE, !.ret = result,
                                         !.reply = reply]
                    ELSE [c EXCEPT !.err = "call"]]
           /\ handle' = [handle EXCEPT ![p] = HandleAfter(handle[p], c, ok, result)]
    /\ UNCHANGED <<APP_ID, maxAlloc, portalProbe, sends, closeReq>>
    /\ UNCHANGED <<lvars, pvars>>

\* ZbusNotificationHandle::close_fallible: CloseNotification with the
\* handle's id on the legacy object path and interface, addressed to
\* notification.bus; the handle is moved into the call either way.
Close(p) ==
    /\ pc[p] = "idle"
    /\ handle[p].valid
    /\ \E ok \in BOOLEAN :
        closeReq' = [closeReq EXCEPT ![p] =
            [valid |-> TRUE, bus |-> handle[p].bus, id |-> handle[p].id,
             created |-> handle[p].created, method |-> "CloseNotification",
             ok |-> ok]]
    /\ handle' = [handle EXCEPT ![p] = NoHandle]
    /\ UNCHANGED <<APP_ID, maxAlloc, portalProbe, sends, pc, call>>
    /\ UNCHANGED <<lvars, pvars>>

\* ZbusNotificationHandle::wait_for_action / on_close: the handle is moved
\* into the listener (wait_for_action_signal, modelled by ListenerSpec on
\* its connection) and cannot be updated or closed afterwards.
WaitForAction(p) ==
    /\ pc[p] = "idle"
    /\ handle[p].valid
    /\ handle' = [handle EXCEPT ![p] = NoHandle]
    /\ UNCHANGED <<APP_ID, maxAlloc, portalProbe, sends, pc, call, closeReq>>
    /\ UNCHANGED <<lvars, pvars>>

\* The portal service appearing, disappearing or changing version.
PortalChange ==
    /\ \E v \in ProbeVals : v # portalProbe /\ portalProbe' = v
    /\ UNCHANGED <<APP_ID, maxAlloc, sends, pc, call, handle, closeReq>>
    /\ UNCHANGED <<lvars, pvars>>

\* ------------------------------------------------------------------
\* wait_for_action_signal
\* ------------------------------------------------------------------

\* Bound on the messages the bus delivers to the listener's connection.
MaxMsgs == 3

\* The identifier the listener waits for, and another one.
TargetId == 9
OtherId == 7

\* xdg::NOTIFICATION_INTERFACE, and an interface of some other service
\* whose signals may reach the same connection (through other match
\* rules or as signals addressed to it).
NOTIFICATION_INTERFACE == "org.freedesktop.Notifications"
OtherInterface == "org.example.Other"

\* A message reaching the connection: its type, interface, member name, the shape of
\* its body ("us" = (u32, String), "uu" = (u32, u32)) and the u32 the
\* body starts with.
Msgs ==
    {[type |-> "signal", iface |-> f, member |-> mb, shape |-> sh, nid |-> n] :
        f \in {NOTIFICATION_INTERFACE, OtherInterface},
        mb \in {"ActionInvoked", "NotificationClosed", "Other"},
        sh \in {"us", "uu"}, n \in {OtherId, TargetId}}
    \cup {[type |-> "method_return", iface |-> "none", member |-> "none",
           shape |-> "us", nid |-> TargetId]}

\* Variant: the identifier carried by the signal is not compared.
MatchesAnyId(m, id) ==
    /\ m.type = "signal"
    /\ \/ m.member = "ActionInvoked" /\ m.shape = "us"
       \/ m.member = "NotificationClosed" /\ m.shape = "uu"

\* Variant: the signal's interface is compared as well.
MatchesNotifIface(m, id) ==
    /\ m.type = "signal"
    /\ m.iface = NOTIFICATION_INTERFACE
    /\ \/ m.member = "ActionInvoked" /\ m.shape = "us"
       \/ m.member = "NotificationClosed" /\ m.shape = "uu"
    /\ m.nid = id

\* Loop body: the message makes the listener call the handler (and break)
\* iff it is a signal named ActionInvoked whose body deserializes as
\* (u32, String), or NotificationClosed whose body deserializes as
\* (u32, u32), with the u32 equal to the target id.
Matches(m, id) ==
    /\ m.type = "signal"
    /\ \/ m.member = "ActionInvoked" /\ m.shape = "us"
       \/ m.member = "NotificationClosed" /\ m.shape = "uu"
    /\ m.nid = id

\* Variant: the on_close closure runs for any response.
OnCloseCallsAny(m) == TRUE

\* ZbusNotificationHandle::on_close: the handler given to the listener
\* calls the closure only for ActionResponse::Closed, i.e. when the
\* matching signal is NotificationClosed.
OnCloseCalls(m) == m.member = "NotificationClosed"

\* Variant: the loop does not break after calling the handler.
AfterMatchNoBreak == "loop"

\* Position after the handler call: `break` leaves the loop.
AfterMatch == "done"

\* Variant: a stream that ended or failed is polled again.
StreamStopRetry == "loop"

\* Position after try_next gave Ok(None) or Err: the `while let` stops.
StreamStop == "done"

\* proxy.add_match_rule(action_signal_rule).await.unwrap(): registered,
\* or the unwrap panics.
AddActionRule ==
    /\ lpc = "start"
    /\ \E ok \in BOOLEAN :
        IF ok THEN lpc' = "rule1" /\ rules' = 1
        ELSE lpc' = "panicked" /\ UNCHANGED rules
    /\ UNCHANGED <<live, queue, delivered, consumed, handled, ending, sawMatch, closures, arrived>>
    /\ UNCHANGED <<mvars, pvars>>

\* proxy.add_match_rule(close_signal_rule).await.unwrap()
AddCloseRule ==
    /\ lpc = "rule1"
    /\ \E ok \in BOOLEAN :
        IF ok THEN lpc' = "loop" /\ rules' = 2
        ELSE lpc' = "panicked" /\ UNCHANGED rules
    /\ UNCHANGED <<live, queue, delivered, consumed, handled, ending, sawMatch, closures, arrived>>
    /\ UNCHANGED <<mvars, pvars>>

\* Head of the while-let: zbus::MessageStream::from(connection) creates a
\* fresh stream, which only sees messages delivered from now on.
OpenStream ==
    /\ lpc = "loop"
    /\ lpc' = "next"
    /\ live' = TRUE
    /\ queue' = <<>>
    /\ UNCHANGED <<rules, delivered, consumed, handled, ending, sawMatch, closures, arrived>>
    /\ UNCHANGED <<mvars, pvars>>

\* try_next() yields Ok(Some(msg)); the loop body runs (it has no await)
\* and the temporary stream is dropped with whatever it still buffers.
Receive ==
    /\ lpc = "next"
    /\ queue # <<>>
    /\ LET m == Head(queue)
       IN /\ consumed' = Append(consumed, m)
          /\ IF Matches(m, TargetId)
             THEN /\ handled' = Append(handled, m)
                  /\ lpc' = AfterMatch
                  /\ closures' = IF OnCloseCalls(m) THEN closures + 1
                                  ELSE closures
             ELSE /\ UNCHANGED <<handled, closures>>
                  /\ lpc' = "loop"
    /\ live' = FALSE
    /\ queue' = <<>>
    /\ UNCHANGED <<rules, delivered, ending, sawMatch, arrived>>
    /\ UNCHANGED <<mvars, pvars>>

\* try_next() yields Ok(None) (stream closed, after its buffered messages)
\* or Err(_): the while-let stops without calling the handler.
StreamClosed ==
    /\ lpc = "next"
    /\ \E how \in {"end", "error"} :
        /\ how = "end" => queue = <<>>
        /\ ending' = how
    /\ lpc' = StreamStop
    /\ live' = FALSE
    /\ queue' = <<>>
    /\ UNCHANGED <<rules, delivered, consumed, handled, sawMatch, closures, arrived>>
    /\ UNCHANGED <<mvars, pvars>>

\* The bus delivers a message to the connection.  Signals of the two
\* notification members arrive once their match rule is registered.  A
\* live stream of the listener buffers it; otherwise it is not seen.
Deliver ==
    /\ delivered < MaxMsgs
    /\ lpc \notin {"done", "panicked"}
    /\ \E m \in Msgs :
        /\ (m.member = "ActionInvoked" /\ m.iface = NOTIFICATION_INTERFACE)
           => rules >= 1
        /\ (m.member = "NotificationClosed" /\ m.iface = NOTIFICATION_INTERFACE)
           => rules >= 2
        /\ queue' = IF live THEN Append(queue, m) ELSE queue
        /\ sawMatch' = (sawMatch \/ (rules = 2 /\ Matches(m, TargetId)))
        /\ arrived' = IF rules = 2 THEN Append(arrived, m) ELSE arrived
    /\ delivered' = delivered + 1
    /\ UNCHANGED <<lpc, rules, live, consumed, handled, ending, closures>>
    /\ UNCHANGED <<mvars, pvars>>

\* ------------------------------------------------------------------
\* NotificationBus::custom (zbus_rs.rs bus module, bus.rs)
\* ------------------------------------------------------------------

\* Bound on the number of tokens of a custom path.
MaxPathLen == 4

\* A path string is a sequence of tokens: the separator "/" or a word.
PathTokens == {"/", "test", "bus"}
Paths == UNION {[1..n -> PathTokens] : n \in 0..MaxPathLen}

\* PathBuf::from("/de/hoodie/Notification")
NotificationBase == <<"/", "de", "/", "hoodie", "/", "Notification">>

\* PathBuf::join: an absolute path replaces the base; otherwise a
\* separator is added (the base does not end with one) and the path
\* appended, also when the path is empty.
PathJoin(base, path) ==
    IF Len(path) > 0 /\ path[1] = "/" THEN path
    ELSE base \o <<"/">> \o path

\* skip_first_slash
SkipFirstSlash(t) == IF Len(t) > 0 /\ t[1] = "/" THEN Tail(t) ELSE t

\* .replace('/', ".")
ReplaceSlash(t) == [i \in 1..Len(t) |-> IF t[i] = "/" THEN "." ELSE t[i]]

RECURSIVE Render(_)
Render(t) == IF t = <<>> THEN "" ELSE Head(t) \o Render(Tail(t))

\* zbus::names::WellKnownName::try_from on the dotted name: at least two
\* non-empty elements, not starting with a '.'.
ValidWellKnown(t) ==
    /\ Len(t) > 0
    /\ t[1] # "." /\ t[Len(t)] # "."
    /\ \E i \in 1..Len(t) : t[i] = "."
    /\ \A i \in 1..(Len(t) - 1) : ~(t[i] = "." /\ t[i + 1] = ".")

\* NotificationBus::namespaced_custom
NamespacedCustom(path) ==
    ReplaceSlash(SkipFirstSlash(PathJoin(NotificationBase, path)))

\* NotificationBus::custom: the bus name, or "None".
Custom(path) ==
    IF ValidWellKnown(NamespacedCustom(path))
    THEN Render(NamespacedCustom(path)) ELSE "None"

\* Evaluate NotificationBus::custom on the chosen path.
ApplyCustom ==
    /\ cname = "unset"
    /\ cname' = Custom(cpath)
    /\ UNCHANGED <<cpath, nicon, nhints, readable, payload>>
    /\ UNCHANGED <<mvars, lvars>>

\* ------------------------------------------------------------------
\* Portal payload of send_notification_via_connection_at_bus
\* ------------------------------------------------------------------

\* Bound on the number of hints of a notification.
MaxHints == 2

\* notification.icon
Icons == {"", "dialog"}
\* Files named by Hint::ImagePath.
ImageFiles == {"a.png", "b.png"}
\* Hints, in the order notification.get_hints() yields them.
HintVals == {"urgency_low", "urgency_normal", "urgency_critical",
             "image_a.png", "image_b.png", "other"}
HintSeqs == UNION {[1..n -> HintVals] : n \in 0..MaxHints}

IsUrgencyHint(h) == h \in {"urgency_low", "urgency_normal", "urgency_critical"}
IsImagePathHint(h) == h \in {"image_a.png", "image_b.png"}
ImagePathOf(h) == IF h = "image_a.png" THEN "a.png" ELSE "b.png"

\* Index of the first hint get_hints().find(..Urgency..) returns, 0 if none.
FirstUrgencyIndex(hs) ==
    LET is == {i \in 1..Len(hs) : IsUrgencyHint(hs[i])}
    IN IF is = {} THEN 0 ELSE CHOOSE i \in is : \A j \in is : i <= j

\* Index of the first hint get_hints().find(..ImagePath..) returns, 0 if none.
FirstImagePathIndex(hs) ==
    LET is == {i \in 1..Len(hs) : IsImagePathHint(hs[i])}
    IN IF is = {} THEN 0 ELSE CHOOSE i \in is : \A j \in is : i <= j

\* Variant: Urgency::Critical is sent as "critical".
UrgencyPriorityCritical(h) ==
    CASE h = "urgency_low" -> "low"
      [] h = "urgency_normal" -> "normal"
      [] h = "urgency_critical" -> "critical"

\* match urgency { Low => "low", Normal => "normal", Critical => "urgent" }
UrgencyPriority(h) ==
    CASE h = "urgency_low" -> "low"
      [] h = "urgency_normal" -> "normal"
      [] h = "urgency_critical" -> "urgent"

\* priority_variant: the first urgency hint, "normal" without one.
Priority(hs) ==
    LET i == FirstUrgencyIndex(hs)
    IN IF i = 0 THEN "normal" ELSE UrgencyPriority(hs[i])

\* Variant: the image path is read even when the icon name is set.
IconPayloadIgnoreIcon(icon, hs, files) ==
    LET i == FirstImagePathIndex(hs)
    IN IF i # 0 /\ ImagePathOf(hs[i]) \in files
       THEN [kind |-> "bytes", value |-> ImagePathOf(hs[i])]
       ELSE [kind |-> "themed", value |-> icon]

\* icon_variant: ("themed", [icon]) unless the icon is empty and
\* fs::read of the first ImagePath hint succeeds, then ("bytes", data).
IconPayload(icon, hs, files) ==
    LET i == FirstImagePathIndex(hs)
    IN IF icon = "" /\ i # 0 /\ ImagePathOf(hs[i]) \in files
       THEN [kind |-> "bytes", value |-> ImagePathOf(hs[i])]
       ELSE [kind |-> "themed", value |-> icon]

\* The dict passed to AddNotification.
PortalPayload(icon, hs, files) ==
    [title |-> "summary", body |-> "body", priority |-> Priority(hs),
     icon |-> IconPayload(icon, hs, files)]

\* Build the portal payload of the chosen notification.
EncodePortal ==
    /\ payload = NoPayload
    /\ payload' = PortalPayload(nicon, nhints, readable)
    /\ UNCHANGED <<cpath, cname, nicon, nhints, readable>>
    /\ UNCHANGED <<mvars, lvars>>

Next ==
    \/ \E p \in Procs : ConnectAndSend(p)
    \/ \E p \in Procs : ConnectAndSendAtBus(p)
    \/ \E p \in Procs : Update(p)
    \/ \E p \in Procs : StartSend(p)
    \/ \E p \in Procs : Complete(p)
    \/ \E p \in Procs : Close(p)
    \/ \E p \in Procs : WaitForAction(p)
    \/ PortalChange

Spec == Init /\ [][Next]_vars

\* No send in progress and no handle.
MainIdle ==
    /\ closeReq = [p \in Procs |-> NoClose]
    /\ APP_ID = 1
    /\ maxAlloc = 0
    /\ portalProbe = -1
    /\ sends = 0
    /\ pc = [p \in Procs |-> "idle"]
    /\ call = [p \in Procs |-> NoCall]
    /\ handle = [p \in Procs |-> NoHandle]

\* The listener, run on a connection whose sending state is idle.
ListenerStart == ListenerInit /\ PureInit /\ MainIdle

ListenerNext ==
    \/ AddActionRule
    \/ AddCloseRule
    \/ OpenStream
    \/ Receive
    \/ StreamClosed
    \/ Deliver

ListenerSpec == ListenerStart /\ [][ListenerNext]_vars

\* NotificationBus::custom applied to every bounded path.
CustomStart ==
    /\ cpath \in Paths
    /\ cname = "unset"
    /\ nicon = "" /\ nhints = <<>> /\ readable = {} /\ payload = NoPayload
    /\ ListenerInit /\ MainIdle

CustomNext == ApplyCustom

CustomSpec == CustomStart /\ [][CustomNext]_vars

\* The portal payload built for every bounded notification.
PayloadStart ==
    /\ nicon \in Icons
    /\ nhints \in HintSeqs
    /\ readable \in SUBSET ImageFiles
    /\ payload = NoPayload
    /\ cpath = <<>> /\ cname = "unset"
    /\ ListenerInit /\ MainIdle

PayloadNext == EncodePortal

PayloadSpec == PayloadStart /\ [][PayloadNext]_vars

\* The listener task is polled whenever it can make progress.
ListenerLiveSpec ==
    /\ ListenerSpec
    /\ WF_vars(AddActionRule)
    /\ WF_vars(AddCloseRule)
    /\ WF_vars(OpenStream)
    /\ WF_vars(Receive)

\* ------------------------------------------------------------------
\* Properties of the sending path (specification Spec)
\* ------------------------------------------------------------------

\* C1: every identifier a portal send with identifier 0 returns is
\* strictly greater (as a u32) than every identifier self-allocated
\* before it in the process.
C1_PortalMonotonic ==
    \A p \in Procs :
        (call[p].self /\ call[p].ok) => ULess(call[p].prevMax, call[p].ret)

\* C2: portal sends with identifier 0 that are in flight at the same time
\* never hold the same self-allocated identifier.
C2_DistinctConcurrentIds ==
    \A p, q \in Procs :
        (p # q /\ pc[p] = "inflight" /\ pc[q] = "inflight"
         /\ call[p].self /\ call[q].self) => call[p].id # call[q].id

C2_Witness ==
    \E p, q \in Procs :
        p # q /\ pc[p] = "inflight" /\ pc[q] = "inflight"
        /\ call[p].self /\ call[q].self

\* C7: an unforced send (connect_and_send_notification, handle update)
\* probes the portal version at the time of the call and goes to the
\* portal bus iff the read succeeded with a version > 0, else to the
\* default bus; a failed probe never becomes the caller's error.
C7_ProbeInv ==
    \A p \in Procs :
        (call[p].op \in {"connect", "update"} /\ call[p].err # "session")
        => /\ call[p].probed
           /\ call[p].bus = IF call[p].probe # -1 /\ call[p].probe > 0
                            THEN "org.freedesktop.portal.Desktop"
                            ELSE "org.freedesktop.Notifications"
           /\ call[p].err \in {"none", "call"}

C7_ProbeFresh ==
    \A p \in Procs :
        (pc[p] = "idle" /\ pc'[p] = "probed"
         /\ call'[p].op \in {"connect", "update"}) => call'[p].probe = portalProbe

C7_ProbeSelection == []C7_ProbeInv /\ [][C7_ProbeFresh]_vars

C7_Witness ==
    \E p \in Procs :
        /\ call[p].op = "update" /\ call[p].ok /\ call[p].probe = -1
        /\ handle[p].created = "org.freedesktop.portal.Desktop"

\* C8: connect_and_send_notification_at_bus does not probe and uses the
\* AddNotification encoding exactly when the supplied bus is the portal
\* bus name, Notify otherwise.
C8_ForcedDispatch ==
    \A p \in Procs :
        (call[p].op = "connect_at" /\ call[p].err # "session")
        => /\ ~call[p].probed
           /\ call[p].method =
                IF call[p].bus = "org.freedesktop.portal.Desktop"
                THEN "AddNotification" ELSE "Notify"

C8_Witness ==
    \E p, q \in Procs :
        /\ call[p].op = "connect_at" /\ call[p].bus = CustomTestBus
        /\ pc[p] = "inflight"
        /\ call[q].op = "connect_at"
        /\ call[q].bus = "org.freedesktop.portal.Desktop"

\* C9: a completed legacy-branch send (initial send or handle update)
\* returns the server's reply and the handle stores it, whatever
\* identifier was supplied.
C9_LegacyReplyWins ==
    \A p \in Procs :
        (pc[p] = "idle" /\ call[p].ok /\ handle[p].valid
         /\ call[p].bus # "org.freedesktop.portal.Desktop")
        => call[p].ret = call[p].reply /\ handle[p].id = call[p].reply

C9_Witness ==
    \E p \in Procs :
        /\ pc[p] = "idle" /\ call[p].ok /\ call[p].supplied # 0
        /\ call[p].bus # "org.freedesktop.portal.Desktop"

\* C10 (as claimed): a handle update goes to the bus that created the
\* handle.
C10_UpdateSameBus ==
    \A p \in Procs :
        (call[p].op = "update" /\ call[p].ok) => call[p].bus = handle[p].created

\* C11: every live handle made by connect_and_send_notification or
\* connect_and_send_notification_at_bus records in its notification
\* snapshot the bus its send was dispatched to.
C11_HandleBusIsServing ==
    \A p \in Procs : handle[p].valid => handle[p].bus = handle[p].created

\* C12: close_fallible sends CloseNotification with the handle's id to the
\* bus that created the handle.
C12_CloseSameBus ==
    \A p \in Procs :
        closeReq[p].valid =>
            /\ closeReq[p].method = "CloseNotification"
            /\ closeReq[p].bus = closeReq[p].created


\* C16: a portal send with a nonzero identifier leaves the counter alone
\* and returns that identifier, which may coincide with one the counter
\* handed out.
C16_KeepStep ==
    \A p \in Procs :
        (pc[p] \in {"idle", "probed"} /\ pc'[p] = "inflight"
         /\ call'[p].bus = "org.freedesktop.portal.Desktop"
         /\ call'[p].supplied # 0)
        => APP_ID' = APP_ID /\ call'[p].id = call'[p].supplied

C16_KeepInv ==
    \A p \in Procs :
        (call[p].ok /\ call[p].bus = "org.freedesktop.portal.Desktop"
         /\ call[p].supplied # 0) => call[p].ret = call[p].supplied

C16_NonzeroKept == []C16_KeepInv /\ [][C16_KeepStep]_vars

C16_Witness ==
    \E p, q \in Procs :
        /\ p # q /\ call[p].self /\ call[p].ok
        /\ call[q].bus = "org.freedesktop.portal.Desktop"
        /\ ~call[q].self /\ call[q].ok /\ call[q].ret = call[p].ret

\* C18: a self-allocated portal identifier is never 0.
C18_SelfIdNonzero ==
    \A p \in Procs : call[p].self => call[p].id # 0

\* C19: a failed resend of update_fallible, or a failed initial send,
\* returns an error and leaves the caller's handle as it was (the
\* handle's id unchanged, no new handle).
C19_ErrorKeepsHandle ==
    \A p \in Procs :
        (call'[p] # call[p] /\ call'[p].err # "none")
        => /\ ~call'[p].ok
           /\ handle'[p] = handle[p]

C19_ErrorsReturned == [][C19_ErrorKeepsHandle]_vars

C19_Witness ==
    \E p \in Procs :
        /\ call[p].op = "update" /\ call[p].err = "call" /\ handle[p].valid
        /\ call[p].bus = "org.freedesktop.Notifications"

\* ------------------------------------------------------------------
\* Properties of the listener (specifications ListenerSpec and
\* ListenerLiveSpec)
\* ------------------------------------------------------------------

\* C3: the handler is invoked at most once, and with the first
\* ActionInvoked (u32, String) / NotificationClosed (u32, u32) signal with
\* the target id that reached the connection once the listener subscribed;
\* once it has been invoked no further message is consumed.
C3_Inv ==
    LET ms == {i \in 1..Len(arrived) :
                 /\ arrived[i].type = "signal" /\ arrived[i].nid = TargetId
                 /\ \/ arrived[i].member = "ActionInvoked"
                       /\ arrived[i].shape = "us"
                    \/ arrived[i].member = "NotificationClosed"
                       /\ arrived[i].shape = "uu"}
        first == CHOOSE i \in ms : \A j \in ms : i <= j
    IN /\ Len(handled) <= 1
       /\ Len(handled) = 1 => (ms # {} /\ handled[1] = arrived[first])

C3_NoMoreAfterHandler ==
    Len(handled) = 1 => consumed' = consumed /\ handled' = handled

C3_AtMostOnce == []C3_Inv /\ [][C3_NoMoreAfterHandler]_vars

\* C4: a consumed message that is not a signal, or is a signal of another
\* member, or carries another id, or does not decode as the member's body,
\* neither invokes the handler nor ends the loop.
C4_Filter ==
    (/\ Len(consumed') = Len(consumed) + 1
     /\ LET m == consumed'[Len(consumed')]
        IN \/ m.type # "signal"
           \/ m.member \notin {"ActionInvoked", "NotificationClosed"}
           \/ m.nid # TargetId
           \/ m.member = "ActionInvoked" /\ m.shape # "us"
           \/ m.member = "NotificationClosed" /\ m.shape # "uu")
    => handled' = handled /\ lpc' = "loop"

C4_Filtering == [][C4_Filter]_vars

C4_Witness ==
    /\ Len(consumed) = 2 /\ handled = <<>> /\ lpc = "next"
    /\ consumed[1].nid = TargetId /\ consumed[1].member = "NotificationClosed"
    /\ consumed[1].shape = "us"

\* C5: once both match rules are registered, a matching signal reaching
\* the connection eventually makes the listener invoke the handler (unless
\* the stream itself ends).
C5_NoSignalLost ==
    sawMatch ~> (Len(handled) = 1 \/ ending # "none")

\* C6: when the stream ends or fails before a match, the listener stops
\* and the handler has not been invoked.
C6_StreamEndNoHandler ==
    ending # "none" => lpc = "done" /\ handled = <<>>

C6_Witness ==
    /\ ending = "end" /\ Len(consumed) >= 1 /\ sawMatch

\* ------------------------------------------------------------------
\* Properties of NotificationBus::custom (specification CustomSpec)
\* ------------------------------------------------------------------

\* C13: custom("test/bus") and custom("/test/bus") both yield
\* "de.hoodie.Notification.test.bus".
C13_CustomLeadingSlash ==
    (cname # "unset"
     /\ cpath \in {<<"test", "/", "bus">>, <<"/", "test", "/", "bus">>})
    => cname = "de.hoodie.Notification.test.bus"

\* ------------------------------------------------------------------
\* Properties of the portal payload (specification PayloadSpec)
\* ------------------------------------------------------------------

\* C14: the payload has exactly the keys title, body, priority, icon;
\* priority is "low"/"normal"/"urgent" for the first urgency hint
\* Low/Normal/Critical and "normal" without an urgency hint.
C14_PriorityMapping ==
    payload # NoPayload =>
      /\ DOMAIN payload = {"title", "body", "priority", "icon"}
      /\ (\A i \in 1..Len(nhints) :
            nhints[i] \notin {"urgency_low", "urgency_normal", "urgency_critical"})
         => payload.priority = "normal"
      /\ \A i \in 1..Len(nhints) :
           (\A j \in 1..(i - 1) :
              nhints[j] \notin {"urgency_low", "urgency_normal", "urgency_critical"})
           => /\ nhints[i] = "urgency_low" => payload.priority = "low"
              /\ nhints[i] = "urgency_normal" => payload.priority = "normal"
              /\ nhints[i] = "urgency_critical" => payload.priority = "urgent"

C14_Witness ==
    /\ payload # NoPayload /\ Len(nhints) = 2
    /\ nhints[1] = "image_a.png" /\ nhints[2] = "urgency_critical"

\* C15: the icon is the bytes form exactly when the icon name is empty
\* and the (first) image-path hint names a readable file; otherwise it is
\* the themed form of the icon name, and the payload is always built.
C15_IconFallback ==
    payload # NoPayload =>
      LET imgs == {i \in 1..Len(nhints) :
                     nhints[i] \in {"image_a.png", "image_b.png"}}
          first == CHOOSE i \in imgs : \A j \in imgs : i <= j
          file == IF nhints[first] = "image_a.png" THEN "a.png" ELSE "b.png"
      IN IF nicon = "" /\ imgs # {} /\ file \in readable
         THEN payload.icon.kind = "bytes"
         ELSE payload.icon = [kind |-> "themed", value |-> nicon]

C15_Witness ==
    /\ payload # NoPayload /\ nicon = "" /\ nhints = <<"image_b.png">>
    /\ readable = {"a.png"}

\* C17 (as claimed): the handler is only invoked with a signal emitted on
\* the notification interface.
C17_OnlyNotifIface ==
    Len(handled) = 1 => handled[1].iface = "org.freedesktop.Notifications"

\* C17 (amended): the listener does not look at the interface: every
\* message it takes from a live MessageStream that is an ActionInvoked
\* (u32, String) or NotificationClosed (u32, u32) signal with the target id
\* invokes the handler and ends the loop, whatever interface emitted it;
\* signals that reach the connection while no stream is live, or that are
\* dropped with a stream's buffer (C5), are never seen.
C17_IfaceStep ==
    (/\ Len(consumed') = Len(consumed) + 1
     /\ LET m == consumed'[Len(consumed')]
        IN /\ m.type = "signal" /\ m.nid = TargetId
           /\ m.iface # "org.freedesktop.Notifications"
           /\ \/ m.member = "ActionInvoked" /\ m.shape = "us"
              \/ m.member = "NotificationClosed" /\ m.shape = "uu")
    => handled' = Append(handled, consumed'[Len(consumed')]) /\ lpc' = "done"

C17_IfaceIgnored == [][C17_IfaceStep]_vars

C17_Witness ==
    Len(handled) = 1 /\ handled[1].iface # "org.freedesktop.Notifications"

\* C20: on_close's closure runs exactly when the first matching signal to
\* reach the connection is NotificationClosed; when a matching
\* ActionInvoked arrives first the closure is never called.
C20_Inv ==
    LET ms == {i \in 1..Len(arrived) :
                 /\ arrived[i].type = "signal" /\ arrived[i].nid = TargetId
                 /\ \/ arrived[i].member = "ActionInvoked"
                       /\ arrived[i].shape = "us"
                    \/ arrived[i].member = "NotificationClosed"
                       /\ arrived[i].shape = "uu"}
        first == CHOOSE i \in ms : \A j \in ms : i <= j
    IN /\ closures <= 1
       /\ closures = 1 => (ms # {} /\ arrived[first].member = "NotificationClosed")
       /\ (ms # {} /\ arrived[first].member = "ActionInvoked") => closures = 0

C20_OnCloseOnlyClosed == []C20_Inv

====
